---- MODULE Spec2Model ----
(***************************************************************************)
(* A model of recs (src/src/lib.rs): the entity pool `Bucket` (a growable  *)
(* vector of optional entities plus a stack of free ids) and the per       *)
(* entity component map of `Entity`.                                       *)
(*                                                                         *)
(* Entity ids are 0-based as in the source; TLA+ sequences are 1-based, so *)
(* slot `id` of the source is entities[id + 1] here.                       *)
(***************************************************************************)
EXTENDS Integers, Sequences, FiniteSets

VARIABLES
    entities,   \* Bucket.entities : Vec<Option<Entity>>
    free_ids,   \* Bucket.free_ids : Vec<EntityId>
    last,       \* history: the most recent call, what it returned, what its slot held before
    log,        \* history: the create/delete calls made so far (recorded under SpecTrace only)
    graves      \* history: the vacant slots whose last occupant held a component when deleted

vars == <<entities, free_ids, last, log, graves>>

(***************************************************************************)
(* Bounds of the model.                                                    *)
(***************************************************************************)
\* Spec: create_entity grows the pool only below this many slots.
MaxSlots == 2
\* Spec: delete_entity_by_id pushes only while free_ids is shorter than this.
MaxFree == 2
\* SpecTrace: the number of create/delete calls recorded.
MaxCalls == 6
\* SpecDouble: the number of create/delete calls recorded.
MaxDoubleCalls == 5
\* SpecTrace: delete_entity_by_id is called with ids 0..MaxTraceId.
MaxTraceId == 2

\* The component types the caller uses (TypeId::of::<T>()).
TypeIds == {"T", "U"}
\* The values a caller writes into a component; T::default() is DefaultOf(t).
FieldVals == {0, 1}
DefaultOf(t) == 0

(***************************************************************************)
(* Option and Result values.                                               *)
(***************************************************************************)
None == [tag |-> "None"]
Some(v) == [tag |-> "Some", val |-> v]
Ok(v) == [tag |-> "Ok", val |-> v]
Err(msg) == [tag |-> "Err", msg |-> msg]
\* An index out of bounds (`self.entities[id] = ...`) unwinds the call.
Panic == [tag |-> "Panic"]
Unit == [tag |-> "()"]

Last(s) == s[Len(s)]
Front(s) == SubSeq(s, 1, Len(s) - 1)

(***************************************************************************)
(* Entity                                                                  *)
(***************************************************************************)
\* HashMap::new()
EmptyMap == [t \in {} |-> 0]

\* HashMap::insert: the entry for k is replaced, the others are kept.
MapInsert(m, k, v) == [x \in (DOMAIN m) \cup {k} |-> IF x = k THEN v ELSE m[x]]

\* HashMap::get / get_mut
MapGet(m, k) == IF k \in DOMAIN m THEN Some(m[k]) ELSE None

\* Box<dyn Any>: a value together with the type it was built as.
Box(t, v) == [type |-> t, val |-> v]

\* downcast_ref::<T> / downcast_mut::<T>: the value, if the box holds a T.
Downcast(box, t) == IF box.type = t THEN Some(box.val) ELSE None

\* A mutant of EntityNew: the store of a new entity already holds a component.
EntityNewDirty(id) ==
    [index |-> id, components |-> MapInsert(EmptyMap, "T", Box("T", DefaultOf("T")))]

\* A mutant of EntityNew: the id stored is off by one.
EntityNewOffByOne(id) == [index |-> id + 1, components |-> EmptyMap]

\* Entity::new
EntityNew(id) == [index |-> id, components |-> EmptyMap]

\* A mutant of AddComponent: an entry that is already there is kept.
AddComponentKeep(e, t) ==
    IF t \in DOMAIN e.components THEN e
    ELSE [e EXCEPT !.components = MapInsert(e.components, t, Box(t, DefaultOf(t)))]

\* A mutant of AddComponent: the store is rebuilt with the new component alone.
AddComponentFresh(e, t) ==
    [e EXCEPT !.components = MapInsert(EmptyMap, t, Box(t, DefaultOf(t)))]

\* Entity::add_component::<T>: the entity after the call (the returned
\* reference points at its entry for t, which holds T::default()).
AddComponent(e, t) ==
    [e EXCEPT !.components = MapInsert(e.components, t, Box(t, DefaultOf(t)))]

\* A mutant of GetComponent: without an entry for T, any component stored is
\* handed out as a T (no exact type match).
GetComponentAny(e, t) ==
    IF t \in DOMAIN e.components THEN Downcast(e.components[t], t)
    ELSE IF DOMAIN e.components # {}
         THEN Some(e.components[CHOOSE k \in DOMAIN e.components : TRUE].val)
         ELSE None

\* A mutant of GetComponent: the key is the type id of the box, not of T.
GetComponentBoxKey(e, t) ==
    LET component == MapGet(e.components, "Component")
    IN  IF component.tag = "Some" THEN Downcast(component.val, t) ELSE None

\* Entity::get_component::<T>
GetComponent(e, t) ==
    LET component == MapGet(e.components, t)
    IN  IF component.tag = "Some" THEN Downcast(component.val, t) ELSE None

\* Entity::get_component_mut::<T>
GetComponentMut(e, t) ==
    LET component == MapGet(e.components, t)
    IN  IF component.tag = "Some" THEN Downcast(component.val, t) ELSE None

\* A write of v through the &mut T that add_component / get_component_mut
\* returned: the value in the box changes, the box stays what it is.
WriteComponent(e, t, v) ==
    [e EXCEPT !.components = MapInsert(e.components, t, Box(e.components[t].type, v))]

(***************************************************************************)
(* Bucket                                                                  *)
(***************************************************************************)
\* Bucket::new
BucketNew == [entities |-> <<>>, free_ids |-> <<>>]

Bucket == [entities |-> entities, free_ids |-> free_ids]

\* Vec::get / get_mut on the slot vector.
SlotGet(ents, id) == IF id < Len(ents) THEN Some(ents[id + 1]) ELSE None

\* A mutant of AllocId: the oldest free id is taken first (a queue).
AllocIdFifo(b) ==
    IF b.free_ids # <<>>
    THEN [id |-> Head(b.free_ids), free_ids |-> Tail(b.free_ids), entities |-> b.entities]
    ELSE [id |-> Len(b.entities), free_ids |-> b.free_ids,
          entities |-> Append(b.entities, None)]

\* A mutant of AllocId: the free list is ignored and the pool always grows.
AllocIdGrow(b) ==
    [id |-> Len(b.entities), free_ids |-> b.free_ids, entities |-> Append(b.entities, None)]

\* A mutant of AllocId: the new id is read after the push.
AllocIdAfterPush(b) ==
    IF b.free_ids # <<>>
    THEN [id |-> Last(b.free_ids), free_ids |-> Front(b.free_ids), entities |-> b.entities]
    ELSE [id |-> Len(b.entities) + 1, free_ids |-> b.free_ids,
          entities |-> Append(b.entities, None)]

\* A mutant of AllocId: the last free id is read but not popped.
AllocIdNoPop(b) ==
    IF b.free_ids # <<>>
    THEN [id |-> Last(b.free_ids), free_ids |-> b.free_ids, entities |-> b.entities]
    ELSE [id |-> Len(b.entities), free_ids |-> b.free_ids,
          entities |-> Append(b.entities, None)]

\* create_entity, the choice of the id: pop free_ids, else grow by one None slot.
AllocId(b) ==
    IF b.free_ids # <<>>
    THEN [id |-> Last(b.free_ids), free_ids |-> Front(b.free_ids), entities |-> b.entities]
    ELSE [id |-> Len(b.entities), free_ids |-> b.free_ids,
          entities |-> Append(b.entities, None)]

\* A mutant of StoreEntity: the slot is left vacant.
StoreEntityNothing(ents, id) == ents

\* create_entity: `self.entities[id] = Some(Entity::new(id))` (id in bounds).
StoreEntity(ents, id) == [ents EXCEPT ![id + 1] = Some(EntityNew(id))]

\* Bucket::create_entity: the bucket after the call and what the call returns
\* (the entity behind the returned reference).
CreateEntity(b) ==
    LET a == AllocId(b)
        inBounds == a.id < Len(a.entities)
        ents == IF inBounds THEN StoreEntity(a.entities, a.id) ELSE a.entities
        slot == SlotGet(ents, a.id)
        ret == IF ~inBounds THEN Panic
               ELSE IF slot.tag = "Some" /\ slot.val.tag = "Some"
                    THEN Ok(slot.val.val)
                    ELSE Err("Failed to create entity!")
    IN  [bucket |-> [entities |-> ents, free_ids |-> a.free_ids], ret |-> ret]

\* A mutant of DeleteEntityById: the id is pushed without the bounds check.
DeleteEntityByIdUnchecked(b, id) ==
    IF id < Len(b.entities)
    THEN [bucket |-> [entities |-> [b.entities EXCEPT ![id + 1] = None],
                      free_ids |-> Append(b.free_ids, id)],
          ret |-> Ok(Unit)]
    ELSE [bucket |-> [entities |-> b.entities, free_ids |-> Append(b.free_ids, id)],
          ret |-> Err("Could not delete entity")]

\* A mutant of DeleteEntityById: a slot that is already vacant is not pushed again.
DeleteEntityByIdOnce(b, id) ==
    IF id < Len(b.entities)
    THEN [bucket |-> [entities |-> [b.entities EXCEPT ![id + 1] = None],
                      free_ids |-> IF b.entities[id + 1].tag = "Some"
                                   THEN Append(b.free_ids, id) ELSE b.free_ids],
          ret |-> Ok(Unit)]
    ELSE [bucket |-> b, ret |-> Err("Could not delete entity")]

\* A mutant of DeleteEntityById: the last slot is removed from the vector.
DeleteEntityByIdShrink(b, id) ==
    IF id < Len(b.entities)
    THEN IF id = Len(b.entities) - 1
         THEN [bucket |-> [entities |-> Front(b.entities), free_ids |-> b.free_ids],
               ret |-> Ok(Unit)]
         ELSE [bucket |-> [entities |-> [b.entities EXCEPT ![id + 1] = None],
                           free_ids |-> Append(b.free_ids, id)],
               ret |-> Ok(Unit)]
    ELSE [bucket |-> b, ret |-> Err("Could not delete entity")]

\* A mutant of DeleteEntityById: the slot is cleared but its id is not pushed.
DeleteEntityByIdNoPush(b, id) ==
    IF id < Len(b.entities)
    THEN [bucket |-> [entities |-> [b.entities EXCEPT ![id + 1] = None],
                      free_ids |-> b.free_ids],
          ret |-> Ok(Unit)]
    ELSE [bucket |-> b, ret |-> Err("Could not delete entity")]

\* Bucket::delete_entity_by_id
DeleteEntityById(b, id) ==
    IF SlotGet(b.entities, id).tag = "Some"
    THEN [bucket |-> [entities |-> [b.entities EXCEPT ![id + 1] = None],
                      free_ids |-> Append(b.free_ids, id)],
          ret |-> Ok(Unit)]
    ELSE [bucket |-> b, ret |-> Err("Could not delete entity")]

\* A mutant of GetEntityById: the slot after the one asked for is read.
GetEntityByIdNext(b, id) ==
    LET slot == SlotGet(b.entities, id + 1)
    IN  IF slot.tag = "Some" THEN slot.val ELSE None

\* Bucket::get_entity_by_id
GetEntityById(b, id) ==
    LET slot == SlotGet(b.entities, id)
    IN  IF slot.tag = "Some" THEN slot.val ELSE None

\* Bucket::get_all_entities: the slot vector itself, vacant slots included.
GetAllEntities(b) == b.entities

(***************************************************************************)
(* The calls a caller makes.  `last` records the call, its result and, for *)
(* create and delete, what the slot of the call held before the call.      *)
(***************************************************************************)
Call(op, id, ty, ret, prior) == [op |-> op, id |-> id, ty |-> ty, ret |-> ret, prior |-> prior]

NoId == 0 - 1
NoType == "-"
NoPrior == "-"

\* What slot `id` holds before a call: "out_of_bounds", "vacant" or "occupied".
SlotState(id) ==
    IF id >= Len(entities) THEN "out_of_bounds"
    ELSE IF entities[id + 1] = None THEN "vacant" ELSE "occupied"

\* What the slot create_entity is about to write holds before the call; a vacant
\* slot is "vacant_had_components" when its deleted occupant held a component,
\* an occupied one "occupied_had_components" when its entity holds one.
CreatePrior ==
    LET id == AllocId(Bucket).id
    IN  IF SlotState(id) = "vacant" /\ id \in graves
        THEN "vacant_had_components"
        ELSE IF SlotState(id) = "occupied" /\ entities[id + 1].val.components # EmptyMap
             THEN "occupied_had_components"
             ELSE SlotState(id)

CreateCall(r) == Call("create", NoId, NoType, r.ret, CreatePrior)

DeleteCall(id, r) == Call("delete", id, NoType, r.ret, SlotState(id))

\* graves after create_entity: the slot written is no longer vacant.
GravesAfterCreate == graves \ {AllocId(Bucket).id}

\* graves after delete_entity_by_id(id): a slot emptied now is a grave iff the
\* entity dropped held a component; an already vacant slot keeps its mark.
GravesAfterDelete(id) ==
    IF SlotState(id) # "occupied" THEN graves
    ELSE IF entities[id + 1].val.components # EmptyMap
         THEN graves \cup {id} ELSE graves \ {id}

\* What the entity of slot id holds for type t before add_component::<t>:
\* "absent", "held_default" or "held_written" (a value other than the default).
AddPrior(id, t) ==
    LET held == GetComponent(GetEntityById(Bucket, id).val, t)
    IN  IF held.tag # "Some" THEN "absent"
        ELSE IF held.val = DefaultOf(t) THEN "held_default" ELSE "held_written"

\* The most recent call is a create_entity that returned an entity.
IsCreated(c) == c.op = "create" /\ c.ret.tag = "Ok"

Init ==
    /\ entities = BucketNew.entities
    /\ free_ids = BucketNew.free_ids
    /\ last = Call("new", NoId, NoType, Unit, NoPrior)
    /\ log = <<>>
    /\ graves = {}

\* bucket.create_entity()
Create ==
    /\ Len(entities) < MaxSlots \/ free_ids # <<>>
    /\ LET r == CreateEntity(Bucket)
       IN  /\ entities' = r.bucket.entities
           /\ free_ids' = r.bucket.free_ids
           /\ last' = CreateCall(r)
    /\ graves' = GravesAfterCreate
    /\ UNCHANGED log

\* bucket.delete_entity_by_id(id)
Delete(id) ==
    /\ Len(free_ids) < MaxFree \/ id >= Len(entities)
    /\ LET r == DeleteEntityById(Bucket, id)
       IN  /\ entities' = r.bucket.entities
           /\ free_ids' = r.bucket.free_ids
           /\ last' = DeleteCall(id, r)
    /\ graves' = GravesAfterDelete(id)
    /\ UNCHANGED log

\* bucket.get_entity_by_id(id)
GetEntity(id) ==
    /\ last' = Call("get", id, NoType, GetEntityById(Bucket, id), NoPrior)
    /\ UNCHANGED <<entities, free_ids, log, graves>>

\* bucket.get_entity_by_id(id).unwrap().add_component::<t>()
AddComponentTo(id, t) ==
    /\ GetEntityById(Bucket, id).tag = "Some"
    /\ LET e == AddComponent(GetEntityById(Bucket, id).val, t)
       IN  /\ entities' = [entities EXCEPT ![id + 1] = Some(e)]
           /\ last' = Call("add_component", id, t, GetComponent(e, t), AddPrior(id, t))
    /\ UNCHANGED <<free_ids, log, graves>>

\* *bucket.get_entity_by_id(id).unwrap().get_component_mut::<t>().unwrap() = v
\* (`last` records the value now behind the reference).
WriteComponentOf(id, t, v) ==
    /\ GetEntityById(Bucket, id).tag = "Some"
    /\ GetComponentMut(GetEntityById(Bucket, id).val, t).tag = "Some"
    /\ LET e == WriteComponent(GetEntityById(Bucket, id).val, t, v)
       IN  /\ entities' = [entities EXCEPT ![id + 1] = Some(e)]
           /\ last' = Call("write", id, t, Some(v), NoPrior)
    /\ UNCHANGED <<free_ids, log, graves>>

\* bucket.get_entity_by_id(id).unwrap().get_component::<t>()
GetComponentOf(id, t) ==
    /\ GetEntityById(Bucket, id).tag = "Some"
    /\ last' = Call("get_component", id, t,
                    GetComponent(GetEntityById(Bucket, id).val, t), NoPrior)
    /\ UNCHANGED <<entities, free_ids, log, graves>>

\* bucket.get_entity_by_id(id).unwrap().get_component_mut::<t>()
GetComponentMutOf(id, t) ==
    /\ GetEntityById(Bucket, id).tag = "Some"
    /\ last' = Call("get_component_mut", id, t,
                    GetComponentMut(GetEntityById(Bucket, id).val, t), NoPrior)
    /\ UNCHANGED <<entities, free_ids, log, graves>>

\* The ids a caller passes: every slot the pool can have, and one beyond.
CallIds == 0..MaxSlots

Next ==
    \/ Create
    \/ \E id \in CallIds : Delete(id)
    \/ \E id \in CallIds : GetEntity(id)
    \/ \E id \in CallIds, t \in TypeIds : AddComponentTo(id, t)
    \/ \E id \in CallIds, t \in TypeIds, v \in FieldVals : WriteComponentOf(id, t, v)
    \/ \E id \in CallIds, t \in TypeIds : GetComponentOf(id, t)
    \/ \E id \in CallIds, t \in TypeIds : GetComponentMutOf(id, t)

Spec == Init /\ [][Next]_vars

(***************************************************************************)
(* SpecTrace: every sequence of at most MaxCalls create/delete calls on a  *)
(* new bucket, each call and its result recorded in `log`.                 *)
(***************************************************************************)
TraceCreate ==
    /\ Len(log) < MaxCalls
    /\ LET r == CreateEntity(Bucket)
       IN  /\ entities' = r.bucket.entities
           /\ free_ids' = r.bucket.free_ids
           /\ last' = CreateCall(r)
           /\ log' = Append(log, CreateCall(r))
    /\ graves' = GravesAfterCreate

TraceDelete(id) ==
    /\ Len(log) < MaxCalls
    /\ LET r == DeleteEntityById(Bucket, id)
       IN  /\ entities' = r.bucket.entities
           /\ free_ids' = r.bucket.free_ids
           /\ last' = DeleteCall(id, r)
           /\ log' = Append(log, DeleteCall(id, r))
    /\ graves' = GravesAfterDelete(id)

TraceNext ==
    \/ TraceCreate
    \/ \E id \in 0..MaxTraceId : TraceDelete(id)

SpecTrace == Init /\ [][TraceNext]_vars

(***************************************************************************)
(* SpecDouble: every sequence of at most MaxDoubleCalls create/delete      *)
(* calls on a new bucket, recorded in `log`, where the caller may add a    *)
(* component to an entity through the reference create_entity returned.    *)
(***************************************************************************)
DoubleCreate == Len(log) < MaxDoubleCalls /\ TraceCreate

DoubleDelete(id) == Len(log) < MaxDoubleCalls /\ TraceDelete(id)

\* bucket.create_entity().unwrap().add_component::<t>()
DoubleAdd(t) ==
    /\ IsCreated(last)
    /\ AddComponentTo(last.ret.val.index, t)

DoubleNext ==
    \/ DoubleCreate
    \/ \E id \in 0..MaxTraceId : DoubleDelete(id)
    \/ \E t \in TypeIds : DoubleAdd(t)

SpecDouble == Init /\ [][DoubleNext]_vars

(***************************************************************************)
(* SpecDisciplined: the calls of Spec by a caller that passes              *)
(* delete_entity_by_id only the id of a slot that is occupied.             *)
(***************************************************************************)
DisciplinedDelete(id) == SlotState(id) = "occupied" /\ Delete(id)

DisciplinedNext ==
    \/ Create
    \/ \E id \in CallIds : DisciplinedDelete(id)
    \/ \E id \in CallIds : GetEntity(id)
    \/ \E id \in CallIds, t \in TypeIds : AddComponentTo(id, t)
    \/ \E id \in CallIds, t \in TypeIds, v \in FieldVals : WriteComponentOf(id, t, v)
    \/ \E id \in CallIds, t \in TypeIds : GetComponentOf(id, t)
    \/ \E id \in CallIds, t \in TypeIds : GetComponentMutOf(id, t)

SpecDisciplined == Init /\ [][DisciplinedNext]_vars

(***************************************************************************)
(* Helpers of the claims.                                                  *)
(***************************************************************************)
IsCreate(c) == c.op = "create"
IsDelete(c) == c.op = "delete"
DeleteOk(c) == c.op = "delete" /\ c.ret.tag = "Ok"
\* The call returned an entity whose stored id is k.
ReturnsId(c, k) == c.ret.tag = "Ok" /\ c.ret.val.index = k

\* The first n calls of the log are all create_entity.
CreatesOnly(n) == \A i \in 1..n : IsCreate(log[i])

\* The ids deleted and not yet reused after the first n calls of the log, the
\* most recently deleted last: a successful delete pushes, a create pops.
RECURSIVE FreedAfter(_)
FreedAfter(n) ==
    IF n = 0 THEN <<>>
    ELSE LET s == FreedAfter(n - 1)
             c == log[n]
         IN  IF DeleteOk(c) THEN Append(s, c.id)
             ELSE IF IsCreate(c) /\ s # <<>> THEN Front(s)
             ELSE s

\* This step is a create_entity call (under SpecTrace every call extends the log).
TraceCreateStep == Len(log') = Len(log) + 1 /\ IsCreate(Last(log'))

(***************************************************************************)
(* C1. From an empty pool, with no delete in between, the k-th call of     *)
(* create_entity (k = 0, 1, ...) returns an entity whose id is k.          *)
(***************************************************************************)
C1_SequentialIds ==
    \A n \in 1..Len(log) : CreatesOnly(n) => ReturnsId(log[n], n - 1)

C1_Witness == Len(log) = MaxCalls /\ CreatesOnly(MaxCalls)

(***************************************************************************)
(* C2. Free ids are reused in stack order: whenever an id is free,         *)
(* create_entity returns the id most recently deleted and not yet reused.  *)
(* After a successful delete of k the next create returns k; after         *)
(* deleting k1 then k2 the next two creates return k2 then k1.             *)
(***************************************************************************)
C2_LifoReuse ==
    /\ free_ids = FreedAfter(Len(log))
    /\ \A n \in 1..Len(log) :
          IsCreate(log[n]) /\ FreedAfter(n - 1) # <<>>
             => ReturnsId(log[n], Last(FreedAfter(n - 1)))
    /\ \A n \in 2..Len(log) :
          DeleteOk(log[n - 1]) /\ IsCreate(log[n]) => ReturnsId(log[n], log[n - 1].id)
    /\ \A n \in 4..Len(log) :
          /\ DeleteOk(log[n - 3]) /\ DeleteOk(log[n - 2])
          /\ IsCreate(log[n - 1]) /\ IsCreate(log[n])
          => /\ ReturnsId(log[n - 1], log[n - 2].id)
             /\ ReturnsId(log[n], log[n - 3].id)

\* Two distinct ids deleted in a row, then two creates.
C2_Witness ==
    \E n \in 4..Len(log) :
        /\ DeleteOk(log[n - 3]) /\ DeleteOk(log[n - 2])
        /\ log[n - 3].id # log[n - 2].id
        /\ IsCreate(log[n - 1]) /\ IsCreate(log[n])

(***************************************************************************)
(* C3. The pool grows only when the free list is empty: create_entity adds *)
(* exactly one slot, and returns the previous slot count as the id, iff    *)
(* free_ids was empty at the call; otherwise the slot count is unchanged   *)
(* and free_ids loses one id.  And create, create, create, delete(1),      *)
(* create, create returns the ids 0, 1, 2, then 1, then 3.                 *)
(***************************************************************************)
C3_GrowStep ==
    TraceCreateStep =>
        /\ (free_ids = <<>>) <=> (Len(entities') = Len(entities) + 1)
        /\ free_ids = <<>> =>
              /\ ReturnsId(Last(log'), Len(entities))
              /\ free_ids' = <<>>
        /\ free_ids # <<>> =>
              /\ Len(entities') = Len(entities)
              /\ Len(free_ids') = Len(free_ids) - 1

C3_ScenarioCalls ==
    /\ Len(log) >= 6
    /\ CreatesOnly(3)
    /\ IsDelete(log[4]) /\ log[4].id = 1
    /\ IsCreate(log[5]) /\ IsCreate(log[6])

C3_Scenario ==
    C3_ScenarioCalls =>
        /\ ReturnsId(log[1], 0) /\ ReturnsId(log[2], 1) /\ ReturnsId(log[3], 2)
        /\ log[4].ret.tag = "Ok"
        /\ ReturnsId(log[5], 1) /\ ReturnsId(log[6], 3)

C3_GrowsOnlyWhenFreeListEmpty == [][C3_GrowStep]_vars /\ []C3_Scenario

C3_Witness == C3_ScenarioCalls /\ Len(entities) = 4 /\ free_ids = <<>>

(***************************************************************************)
(* C4. delete_entity_by_id(id) with id >= the number of slots returns a    *)
(* failure and leaves the slots (occupancy and components) and free_ids    *)
(* exactly as they were, in every reachable state.                         *)
(***************************************************************************)
C4_DeleteOutOfRangeStep ==
    IsDelete(last') /\ last'.id >= Len(entities) =>
        /\ last'.ret.tag = "Err"
        /\ entities' = entities
        /\ free_ids' = free_ids

C4_DeleteOutOfRangeFails == [][C4_DeleteOutOfRangeStep]_vars

\* A failed delete on a pool that holds a live entity with a component, a
\* vacant slot and a free id.
C4_Witness ==
    /\ IsDelete(last) /\ last.prior = "out_of_bounds" /\ last.ret.tag = "Err"
    /\ free_ids # <<>>
    /\ \E i \in 1..Len(entities) : entities[i] = None
    /\ \E i \in 1..Len(entities) :
          entities[i] # None /\ entities[i].val.components # EmptyMap

(***************************************************************************)
(* C5. delete_entity_by_id(id) with id < the number of slots returns       *)
(* success, leaves slot id vacant and pushes id on top of free_ids,        *)
(* whether the slot was occupied or already vacant; the number of slots    *)
(* and every other slot are unchanged.                                     *)
(***************************************************************************)
C5_DeleteInRangeStep ==
    IsDelete(last') /\ last'.id < Len(entities) =>
        /\ last'.ret.tag = "Ok"
        /\ Len(entities') = Len(entities)
        /\ entities'[last'.id + 1] = None
        /\ \A i \in 1..Len(entities) : i # last'.id + 1 => entities'[i] = entities[i]
        /\ free_ids' = Append(free_ids, last'.id)

C5_DeleteInRangeSucceeds == [][C5_DeleteInRangeStep]_vars

\* A delete of a slot that was already vacant, beside a live entity.
C5_Witness ==
    /\ IsDelete(last) /\ last.prior = "vacant" /\ last.ret.tag = "Ok"
    /\ Len(free_ids) >= 2 /\ Last(free_ids) = last.id
    /\ \E i \in 1..Len(entities) : entities[i] # None

(***************************************************************************)
(* C6. get_entity_by_id(id) returns empty when id is out of bounds or its  *)
(* slot is vacant, and otherwise the entity in slot id, whose stored id is *)
(* the id asked for; it never reports an error.                            *)
(***************************************************************************)
C6_GetEntityById ==
    last.op = "get" =>
        IF last.id >= Len(entities) \/ entities[last.id + 1] = None
        THEN last.ret = None
        ELSE /\ last.ret.tag = "Some"
             /\ last.ret.val = entities[last.id + 1].val
             /\ last.ret.val.index = last.id

\* A live entity found in slot 1 while slot 0 is vacant.
C6_Witness ==
    /\ last.op = "get" /\ last.id = 1 /\ last.ret.tag = "Some"
    /\ entities[1] = None

(***************************************************************************)
(* C7. After any sequence of create_entity and delete_entity_by_id calls,  *)
(* every id in free_ids refers to a slot that is vacant.                   *)
(***************************************************************************)
C7_FreeIdsAreVacant ==
    \A i \in 1..Len(free_ids) :
        free_ids[i] < Len(entities) /\ entities[free_ids[i] + 1] = None

(***************************************************************************)
(* C8. After any sequence of create_entity and delete_entity_by_id calls,  *)
(* free_ids contains no id more than once.                                 *)
(***************************************************************************)
C8_FreeIdsDistinct ==
    \A i, j \in 1..Len(free_ids) : i # j => free_ids[i] # free_ids[j]

(***************************************************************************)
(* C9. create_entity never fails: the slot it writes reads back as         *)
(* occupied, so it never returns "Failed to create entity!".               *)
(***************************************************************************)
C9_CreateNeverFails ==
    IsCreate(last) =>
        /\ last.ret.tag = "Ok"
        /\ last.ret.val.index < Len(entities)
        /\ entities[last.ret.val.index + 1] = Some(last.ret.val)

\* A create that wrote over a live entity (its id had been freed twice).
C9_Witness == IsCreate(last) /\ last.prior = "occupied" /\ last.ret.tag = "Ok"

(***************************************************************************)
(* C10. The entity create_entity returns has an empty component store:     *)
(* get_component::<T> on it is empty for every T, also when the slot is    *)
(* reused and its previous occupant held components when it was deleted.   *)
(***************************************************************************)
C10_NewEntityHasNoComponents ==
    IsCreate(last) =>
        /\ last.ret.tag = "Ok"
        /\ \A t \in TypeIds :
              /\ GetComponent(last.ret.val, t) = None
              /\ GetComponent(entities[last.ret.val.index + 1].val, t) = None

\* A create that reused a slot whose deleted occupant held a component.
C10_Witness ==
    IsCreate(last) /\ last.prior = "vacant_had_components" /\ last.ret.tag = "Ok"

(***************************************************************************)
(* Helpers of the component claims.                                        *)
(***************************************************************************)
\* In bucket b slot id holds an entity, and both get_component::<t> and
\* get_component_mut::<t> on it return a component holding v.
ReadsIn(b, id, t, v) ==
    LET e == GetEntityById(b, id)
    IN  /\ e.tag = "Some"
        /\ GetComponent(e.val, t) = Some(v)
        /\ GetComponentMut(e.val, t) = Some(v)

Reads(id, t, v) == ReadsIn(Bucket, id, t, v)

\* This step replaces the entity of slot id: delete(id), or a create returning id.
ReplacesEntity(id) ==
    \/ IsDelete(last') /\ last'.id = id
    \/ IsCreate(last') /\ ReturnsId(last', id)

\* This step is add_component::<t> on the entity of slot id.
AddsComponent(id, t) == last'.op = "add_component" /\ last'.id = id /\ last'.ty = t

\* This step writes into the t component of the entity of slot id.
WritesComponent(id, t) == last'.op = "write" /\ last'.id = id /\ last'.ty = t

(***************************************************************************)
(* C11. Round trip: after add_component::<T> and a write of values into    *)
(* the component, get_component::<T> and get_component_mut::<T> both       *)
(* return a component holding exactly the values written, for as long as   *)
(* no later add_component::<T> (or write, or replacement of the entity)    *)
(* is made on that entity.                                                 *)
(***************************************************************************)
C11_WriteStep ==
    last'.op = "write" /\ last'.ret.tag = "Some" =>
        ReadsIn(Bucket', last'.id, last'.ty, last'.ret.val)

\* What the two getters return for type t on entity e.
ReadOf(e, t) == <<GetComponent(e, t), GetComponentMut(e, t)>>

C11_KeepStep ==
    Bucket' # Bucket =>
        \A id \in 0..(Len(entities) - 1) :
            LET e == GetEntityById(Bucket, id)
                e2 == GetEntityById(Bucket', id)
            IN  e2 # e /\ e.tag = "Some" /\ ~ReplacesEntity(id) =>
                    \A t \in TypeIds :
                        LET before == ReadOf(e.val, t)
                        IN  /\ before[1].tag = "Some" /\ before[2] = before[1]
                            /\ ~AddsComponent(id, t) /\ ~WritesComponent(id, t)
                            => e2.tag = "Some" /\ ReadOf(e2.val, t) = before

C11_RoundTrip == [][C11_WriteStep /\ C11_KeepStep]_vars

\* A written value read back through get_component_mut, on an entity that
\* holds both component types.
C11_Witness ==
    /\ last.op = "get_component_mut" /\ last.ret = Some(1)
    /\ Reads(last.id, last.ty, 1)
    /\ DOMAIN GetEntityById(Bucket, last.id).val.components = TypeIds

(***************************************************************************)
(* C12. add_component::<T> on an entity that already holds a T replaces    *)
(* it: after the second add get_component::<T> returns a component holding *)
(* T's default values, not the values written after the first add, and the *)
(* entity holds exactly one T.                                             *)
(***************************************************************************)
\* The boxes of entity e that hold a value of type t.
BoxesOfType(e, t) == {k \in DOMAIN e.components : e.components[k].type = t}

C12_AddOverwrites ==
    last.op = "add_component" =>
        LET e == GetEntityById(Bucket, last.id)
        IN  /\ e.tag = "Some"
            /\ last.ret = Some(DefaultOf(last.ty))
            /\ GetComponent(e.val, last.ty) = Some(DefaultOf(last.ty))
            /\ GetComponentMut(e.val, last.ty) = Some(DefaultOf(last.ty))
            /\ Cardinality(BoxesOfType(e.val, last.ty)) = 1

\* An add on an entity whose component of that type held a written value.
C12_Witness == last.op = "add_component" /\ last.prior = "held_written"

(***************************************************************************)
(* C13. Lookup is by exact type: if U was never added to an entity (its    *)
(* store holds no box built as a U), get_component::<U> and                *)
(* get_component_mut::<U> return empty, whatever other types were added    *)
(* and whatever values they hold.                                          *)
(***************************************************************************)
C13_ExactTypeLookup ==
    /\ \A id \in 0..(Len(entities) - 1), u \in TypeIds :
          LET e == GetEntityById(Bucket, id)
          IN  e.tag = "Some" /\ BoxesOfType(e.val, u) = {} =>
                  /\ GetComponent(e.val, u) = None
                  /\ GetComponentMut(e.val, u) = None
    /\ last.op \in {"get_component", "get_component_mut"} =>
          LET e == GetEntityById(Bucket, last.id)
          IN  e.tag = "Some" /\ BoxesOfType(e.val, last.ty) = {} => last.ret = None

\* get_component::<U> is empty on an entity that holds a written T and no U.
C13_Witness ==
    /\ last.op = "get_component" /\ last.ty = "U" /\ last.ret = None
    /\ LET e == GetEntityById(Bucket, last.id)
       IN  /\ GetComponent(e.val, "T") = Some(1)
           /\ BoxesOfType(e.val, "U") = {}

(***************************************************************************)
(* C14. The number of slots never decreases: every step of create_entity,  *)
(* delete_entity_by_id, get_entity_by_id and the component operations      *)
(* leaves at least as many slots as before, and delete removes none.       *)
(***************************************************************************)
C14_Step ==
    /\ Len(entities') >= Len(entities)
    /\ IsDelete(last') => Len(entities') = Len(entities)

C14_SlotsNeverShrink == [][C14_Step]_vars

\* The last slot of a full pool has been deleted and is still there, vacant.
C14_Witness ==
    /\ DeleteOk(last) /\ last.id = Len(entities) - 1
    /\ Len(entities) = MaxSlots /\ entities[Len(entities)] = None

(***************************************************************************)
(* C15. Every occupied slot i holds an entity whose stored id is i; so the *)
(* id of an entity, which stays in its slot, never changes after it is     *)
(* created.                                                                *)
(***************************************************************************)
C15_IndexIsSlot ==
    \A i \in 1..Len(entities) :
        entities[i] # None => entities[i].val.index = i - 1

\* A full pool whose entities were given components after they were created.
C15_Witness ==
    /\ Len(entities) = MaxSlots /\ free_ids = <<>> /\ graves = {}
    /\ last.op = "write"
    /\ \A i \in 1..Len(entities) :
          entities[i] # None /\ DOMAIN entities[i].val.components = TypeIds

(***************************************************************************)
(* C16. Double delete leads to double allocation: after two successful     *)
(* delete_entity_by_id(k) in a row free_ids holds k twice, the next two    *)
(* create_entity calls both return id k, and the second replaces the       *)
(* entity stored by the first: the components added to the first are no    *)
(* longer retrievable through id k.                                        *)
(***************************************************************************)
\* Calls n - 1 and n of the log are successful deletes of the same id.
DoubleDeleteAt(n) ==
    /\ n >= 2 /\ n <= Len(log)
    /\ DeleteOk(log[n - 1]) /\ DeleteOk(log[n])
    /\ log[n - 1].id = log[n].id

\* Calls n - 3 .. n of the log are delete(k), delete(k), create, create.
DoubleAllocationAt(n) ==
    /\ n >= 4 /\ n <= Len(log)
    /\ DoubleDeleteAt(n - 2)
    /\ IsCreate(log[n - 1]) /\ IsCreate(log[n])

\* How many times id k is in free_ids.
TimesFree(k) == Cardinality({i \in 1..Len(free_ids) : free_ids[i] = k})

C16_DoubleAllocation ==
    /\ DoubleDeleteAt(Len(log)) =>
          /\ TimesFree(Last(log).id) >= 2
          /\ Len(free_ids) >= 2
          /\ free_ids[Len(free_ids)] = Last(log).id
          /\ free_ids[Len(free_ids) - 1] = Last(log).id
    /\ \A n \in 4..Len(log) :
          DoubleAllocationAt(n) =>
              /\ ReturnsId(log[n - 1], log[n - 2].id)
              /\ ReturnsId(log[n], log[n - 2].id)
              /\ log[n].prior \in {"occupied", "occupied_had_components"}
    /\ DoubleAllocationAt(Len(log)) /\ IsCreate(last) =>
          LET e == GetEntityById(Bucket, log[Len(log) - 2].id)
          IN  /\ e = Some(last.ret.val)
              /\ \A t \in TypeIds :
                    GetComponent(e.val, t) = None /\ GetComponentMut(e.val, t) = None

\* The second create has just replaced an entity that held a component.
C16_Witness ==
    /\ DoubleAllocationAt(Len(log)) /\ IsCreate(last)
    /\ Last(log).prior = "occupied_had_components"

(***************************************************************************)
(* C17. A slot is vacant only through a deletion not yet undone by reuse:  *)
(* after any sequence of pool operations, double deletes included, the     *)
(* index of every vacant slot is in free_ids, so no vacant slot is lost to *)
(* reuse.                                                                  *)
(***************************************************************************)
C17_VacantSlotsAreFree ==
    \A i \in 1..Len(entities) : entities[i] = None => TimesFree(i - 1) >= 1

\* After a double delete and a reuse: one slot is vacant, and an id that is
\* still in free_ids belongs to an occupied slot.
C17_Witness ==
    /\ \E i \in 1..Len(entities) : entities[i] = None
    /\ \E j \in 1..Len(free_ids) : entities[free_ids[j] + 1] # None

(***************************************************************************)
(* C18. When delete_entity_by_id is only ever called with the id of an     *)
(* occupied slot, in every reachable state free_ids has no duplicates, the *)
(* ids in free_ids are exactly the indices of the vacant slots, and the    *)
(* number of occupied slots plus the length of free_ids is the number of   *)
(* slots.                                                                  *)
(***************************************************************************)
VacantIds == {i \in 0..(Len(entities) - 1) : entities[i + 1] = None}
OccupiedIds == {i \in 0..(Len(entities) - 1) : entities[i + 1] # None}
FreeIdSet == {free_ids[j] : j \in 1..Len(free_ids)}

C18_DisciplinedFreeList ==
    /\ \A i, j \in 1..Len(free_ids) : i # j => free_ids[i] # free_ids[j]
    /\ FreeIdSet = VacantIds
    /\ Cardinality(OccupiedIds) + Len(free_ids) = Len(entities)

\* A create has reused one of two vacant slots; the other is still free.
C18_Witness ==
    /\ IsCreate(last) /\ last.prior = "vacant_had_components"
    /\ free_ids # <<>> /\ VacantIds # {} /\ OccupiedIds # {}

(***************************************************************************)
(* C19. Every id in free_ids is smaller than the number of slots, so the   *)
(* slot write entities[id] of create_entity is never out of bounds:        *)
(* create_entity never panics on a reused id.                              *)
(***************************************************************************)
C19_FreeIdsInBounds ==
    /\ \A j \in 1..Len(free_ids) : free_ids[j] < Len(entities)
    /\ IsCreate(last) => last.ret.tag # "Panic"

\* A create has reused an id, and ids are still free.
C19_Witness ==
    /\ IsCreated(last) /\ last.prior \in {"vacant", "vacant_had_components"}
    /\ free_ids # <<>>

(***************************************************************************)
(* C20. Component operations are local to one entity: add_component::<T>   *)
(* on the entity of slot i changes only that entity's entry for T; its     *)
(* entries for other types, the components of every other entity, the      *)
(* occupancy of every slot, the slot count and free_ids are unchanged; and *)
(* get_component, get_component_mut and get_entity_by_id change nothing.   *)
(***************************************************************************)
C20_AddStep ==
    last'.op = "add_component" =>
        LET i == last'.id + 1
            t == last'.ty
        IN  /\ free_ids' = free_ids
            /\ Len(entities') = Len(entities)
            /\ \A j \in 1..Len(entities) : j # i => entities'[j] = entities[j]
            /\ entities[i].tag = "Some" /\ entities'[i].tag = "Some"
            /\ entities'[i].val.index = entities[i].val.index
            /\ \A u \in TypeIds \ {t} :
                  /\ MapGet(entities'[i].val.components, u)
                        = MapGet(entities[i].val.components, u)
                  /\ ReadOf(entities'[i].val, u) = ReadOf(entities[i].val, u)

C20_ReadStep ==
    last'.op \in {"get", "get_component", "get_component_mut"} =>
        entities' = entities /\ free_ids' = free_ids

C20_ComponentOpsAreLocal == [][C20_AddStep /\ C20_ReadStep]_vars

\* An add on an entity that holds a written component of the other type,
\* beside another entity with components, with an id in free_ids.
C20_Witness ==
    /\ last.op = "add_component" /\ free_ids # <<>>
    /\ \E u \in TypeIds \ {last.ty} :
          GetComponent(GetEntityById(Bucket, last.id).val, u) = Some(1)
    /\ \E j \in 0..(Len(entities) - 1) :
          /\ j # last.id /\ entities[j + 1] # None
          /\ entities[j + 1].val.components # EmptyMap

====
